---- MODULE Spec2Model ----
(***************************************************************************)
(* wallet_bips: HD wallet key and address derivation (BIP32/BIP44 client   *)
(* profiles), the Base58Check / hex encoding layer and the mnemonic        *)
(* word-hiding split.                                                      *)
(*                                                                         *)
(* Every operation of the crate is a stateless function, so the state is   *)
(* the caller's view of one call: which operation ran (op), on which       *)
(* arguments (arg), what it returned (res), and the last error an earlier  *)
(* call returned (last_err).                                               *)
(*                                                                         *)
(* Byte strings are sequences of 0..255, texts are sequences of one        *)
(* character strings.  The hash and elliptic-curve primitives come from    *)
(* external crates (sha2, ripemd, hmac, k256); they are stood in for by    *)
(* Digest, a deterministic function of every byte of its input that        *)
(* returns the primitive's output width.  Base58 and hex are computed.     *)
(***************************************************************************)
EXTENDS Integers, Sequences, FiniteSets, TLC

VARIABLES pc, op, arg, res, last_err

vars == <<pc, op, arg, res, last_err>>

(***************************************************************************)
(* Bounds of the model.                                                    *)
(***************************************************************************)
\* split is called on word sequences of every length 0..MaxLen.
MaxLen == 25
\* generate draws one of NumPhrases word sequences for each word count.
NumPhrases == 1
\* Root keys come from the seeds 1..NumSeeds.
NumSeeds == 2
\* Extended keys of depth 0..MaxDepth are offered to every operation
\* (besides the keys of depth 254 and 255).
MaxDepth == 5

\* The longest byte sequence and the longest text given to the hex codec.
MaxHexLen == 4

(***************************************************************************)
(* Results: Rust's Result<T, WalletBipError>.                              *)
(***************************************************************************)
NoValue == <<>>

NoError == [variant |-> "none", source |-> [type |-> "none", detail |-> "none"]]

Ok(v) == [ok |-> TRUE, val |-> v, err |-> NoError]

\* A WalletBipError variant wrapping the error it was converted from.
Err(variant, source) ==
    [ok |-> FALSE, val |-> NoValue, err |-> [variant |-> variant, source |-> source]]

(***************************************************************************)
(* Bytes.                                                                  *)
(***************************************************************************)
Byte == 0..255

Take(s, n) == SubSeq(s, 1, n)

\* The sequence of the n values f[1], ..., f[n], each computed once.
Seq1(f, n) == SubSeq(f, 1, n)

Zeros(n) == Seq1([i \in 1..n |-> 0], n)

Drop(s, n) == SubSeq(s, n + 1, Len(s))

Range(s) == {s[i] : i \in DOMAIN s}

RECURSIVE WeightedSum(_, _, _)
\* A checksum of s[lo..hi] that depends on every byte and on its position.
WeightedSum(s, lo, hi) ==
    IF lo > hi THEN 0
    ELSE IF lo = hi
    THEN ((s[lo] + 7) * ((lo * lo * 37 + lo * 101 + 13) % 7919)) % 65521
    ELSE LET mid == (lo + hi) \div 2
         IN  (WeightedSum(s, lo, mid) + WeightedSum(s, mid + 1, hi)) % 65521

\* Stand-in for a hash primitive: n bytes determined by tag and all of data.
Digest(tag, data, n) ==
    LET h == (WeightedSum(data, 1, Len(data)) + 257 * Len(data) + tag) % 65521
    IN  Seq1([i \in 1..n |-> ((h * (2 * i + 1)) \div 8 + i * i + tag) % 256], n)

Sha256(data) == Digest(256, data, 32)

Ripemd160(data) == Digest(160, data, 20)

HmacSha512(key, data) == Digest(512, key \o data, 64)

(***************************************************************************)
(* Error conversions: the #[from] attributes of WalletBipError, applied by *)
(* every ? of the crate.                                                   *)
(***************************************************************************)
\* An error value of a library or std type.
LibErr(type, detail) == [ok |-> FALSE, val |-> NoValue,
                         err |-> [type |-> type, detail |-> detail]]

From(e) ==
    CASE e.type = "bip39::Error" -> Err("GenerateMnemonic", e)
      [] e.type = "bip32::Error" -> Err("Crypto", e)
      [] e.type = "fmt::Error"   -> Err("WriteOutput", e)
      [] e.type = "eyre::Report" -> Err("Unexpected", e)

(***************************************************************************)
(* hex.rs                                                                  *)
(***************************************************************************)
HexDigits == <<"0", "1", "2", "3", "4", "5", "6", "7",
               "8", "9", "a", "b", "c", "d", "e", "f">>

\* {b:02x}
FormatByte(b) == <<HexDigits[(b \div 16) + 1], HexDigits[(b % 16) + 1]>>

\* Two digits for every byte, in order.
FormatBytes(bytes) ==
    Seq1([k \in 1..(2 * Len(bytes)) |-> FormatByte(bytes[(k + 1) \div 2])[2 - (k % 2)]],
         2 * Len(bytes))

\* fmt_ok is what the write! calls return; a failed write is returned by ?
\* as an eyre::Report made from the fmt::Error.
encode(bytes, need_prefix, fmt_ok) ==
    IF ~fmt_ok /\ (need_prefix \/ bytes # <<>>)
    THEN LibErr("eyre::Report", "fmt::Error")
    ELSE Ok((IF need_prefix THEN <<"0", "x">> ELSE <<>>) \o FormatBytes(bytes))

HexUpper == <<"A", "B", "C", "D", "E", "F">>

\* The place of c in digits, 0 when it is not there.
Position(digits, c) ==
    IF \E i \in 1..Len(digits) : digits[i] = c
    THEN CHOOSE i \in 1..Len(digits) : digits[i] = c
    ELSE 0

\* Mutant: a lowercase letter is read without the + 10.
from_hex_char_no_offset(c) ==
    IF Position(HexDigits, c) \in 1..10 THEN Ok(Position(HexDigits, c) - 1)
    ELSE IF Position(HexDigits, c) \in 11..16 THEN Ok(Position(HexDigits, c) - 11)
    ELSE IF Position(HexUpper, c) # 0 THEN Ok(Position(HexUpper, c) - 1 + 10)
    ELSE LibErr("eyre::Report", "invalid hex character")

\* c is one ASCII character of the text.
from_hex_char(c) ==
    IF Position(HexDigits, c) \in 1..10 THEN Ok(Position(HexDigits, c) - 1)
    ELSE IF Position(HexDigits, c) \in 11..16 THEN Ok(Position(HexDigits, c) - 11 + 10)
    ELSE IF Position(HexUpper, c) # 0 THEN Ok(Position(HexUpper, c) - 1 + 10)
    ELSE LibErr("eyre::Report", "invalid hex character")

\* s.strip_prefix("0x").unwrap_or(s)
strip_prefix(s) ==
    IF Len(s) >= 2 /\ s[1] = "0" /\ s[2] = "x" THEN SubSeq(s, 3, Len(s)) ELSE s

\* The loop returns at the first character from_hex_char refuses; every
\* refusal is the same error.
decode(s) ==
    LET t == strip_prefix(s)
        digit == [k \in 1..Len(t) |-> from_hex_char(t[k])]
    IN  IF Len(t) % 2 # 0
        THEN LibErr("eyre::Report", "hex string has odd length")
        ELSE IF \E k \in 1..Len(t) : ~digit[k].ok
        THEN LibErr("eyre::Report", "invalid hex character")
        ELSE Ok(Seq1([i \in 1..(Len(t) \div 2) |->
                         ((digit[2 * i - 1].val * 16) % 256) + digit[2 * i].val],
                     Len(t) \div 2))

(***************************************************************************)
(* Base58 (the bs58 crate): the bytes read as a big-endian number, written *)
(* in base 58, one "1" for every leading zero byte.                        *)
(***************************************************************************)
Base58Alphabet ==
    <<"1", "2", "3", "4", "5", "6", "7", "8", "9", "A", "B", "C", "D",
    "E", "F", "G", "H", "J", "K", "L", "M", "N", "P", "Q", "R", "S", "T",
    "U", "V", "W", "X", "Y", "Z", "a", "b", "c", "d", "e", "f", "g", "h",
    "i", "j", "k", "m", "n", "o", "p", "q", "r", "s", "t", "u", "v", "w",
    "x", "y", "z">>

\* The number as base-65536 limbs, most significant first.
Limbs(bytes) ==
    LET padded == IF Len(bytes) % 2 = 1 THEN <<0>> \o bytes ELSE bytes
    IN  Seq1([j \in 1..(Len(padded) \div 2) |-> padded[2 * j - 1] * 256 + padded[2 * j]],
             Len(padded) \div 2)

RECURSIVE DivMod3364(_, _, _, _)
\* Long division of the limbs num[i..] by 58 * 58, rem carried in.
DivMod3364(num, i, quot, rem) ==
    IF i > Len(num) THEN [quot |-> quot, rem |-> rem]
    ELSE LET cur == rem * 65536 + num[i]
         IN  DivMod3364(num, i + 1, Append(quot, cur \div 3364), cur % 3364)

RECURSIVE StripZeros(_)
StripZeros(num) ==
    IF num # <<>> /\ Head(num) = 0 THEN StripZeros(Tail(num)) ELSE num

RECURSIVE Base58Digits(_, _)
\* The base-58 digits of the limbs num before digits, two for every division.
Base58Digits(num, digits) ==
    IF num = <<>> THEN digits
    ELSE LET d == DivMod3364(num, 1, <<>>, 0)
         IN  Base58Digits(StripZeros(d.quot), <<d.rem \div 58, d.rem % 58>> \o digits)

RECURSIVE LeadingZeros(_)
LeadingZeros(bytes) ==
    IF bytes # <<>> /\ Head(bytes) = 0 THEN 1 + LeadingZeros(Tail(bytes)) ELSE 0

bs58_encode(bytes) ==
    LET zeros == LeadingZeros(bytes)
        digits == StripZeros(Base58Digits(StripZeros(Limbs(bytes)), <<>>))
    IN  Seq1([i \in 1..zeros |-> "1"], zeros)
        \o Seq1([i \in 1..Len(digits) |-> Base58Alphabet[digits[i] + 1]], Len(digits))

(***************************************************************************)
(* mnemonic/mod.rs                                                         *)
(***************************************************************************)
MIN_NB_WORDS == 12

MAX_NB_WORDS == 24

\* Words of the English word list, and words outside it.
Wordlist == <<"dragon", "elbow", "sheriff", "outdoor", "undo", "brisk", "aware",
              "raw", "inform", "correct", "lake", "truly", "jar">>

ForeignWords == <<"jak", "XXXX", "Dragon", "">>

is_mnemonic(word) == word \in Range(Wordlist)

\* The t-th phrase of n words that the random source of generate can draw.
Phrase(n, t) == Seq1([i \in 1..n |-> Wordlist[((i + t * 5) % Len(Wordlist)) + 1]], n)

\* A sequence of n words that are in no word list.
ForeignPhrase(n) ==
    Seq1([i \in 1..n |-> ForeignWords[(i % Len(ForeignWords)) + 1]], n)

\* Mutant: a sequence of MAX_NB_WORDS words is refused.
is_invalid_word_count_exclusive(word_count) ==
    word_count < MIN_NB_WORDS \/ word_count % 3 # 0 \/ word_count >= MAX_NB_WORDS

is_invalid_word_count(word_count) ==
    word_count < MIN_NB_WORDS \/ word_count % 3 # 0 \/ word_count > MAX_NB_WORDS

\* Mnemonic::generate_in refuses the word counts is_invalid_word_count names
\* and otherwise draws word_count words; t is the draw.
generate(word_count, t) ==
    IF is_invalid_word_count(word_count)
    THEN From(LibErr("bip39::Error", "BadWordCount").err)
    ELSE Ok(Phrase(word_count, t))

HIDED == "XXXX"

\* Mutant: a quarter of the words is kept instead of a third.
truncate_len_quarter(len) == len \div 4

\* values.truncate(len / 3)
truncate_len(len) == len \div 3

\* values after shuffle, truncate and collect: the first len/3 entries of a
\* permutation of 0..len-1 are any len/3 distinct indices.
shuffled(len) == {v \in SUBSET (0..(len - 1)) : Cardinality(v) = truncate_len(len)}

\* Mutant: the first len/3 words are hidden, whatever the shuffle left.
split_first_words(mnemonic, values) ==
    IF is_invalid_word_count(Len(mnemonic))
    THEN Err("SplitMnemonic", [type |-> "String", detail |-> "invalid word count"])
    ELSE Ok(Seq1([i \in 1..Len(mnemonic) |->
                     IF (i - 1) < Cardinality(values) THEN HIDED ELSE mnemonic[i]],
                 Len(mnemonic)))

\* values is what the shuffle left, as the set the code collects.
split(mnemonic, values) ==
    IF is_invalid_word_count(Len(mnemonic))
    THEN Err("SplitMnemonic", [type |-> "String", detail |-> "invalid word count"])
    ELSE Ok(Seq1([i \in 1..Len(mnemonic) |->
                     IF (i - 1) \in values THEN HIDED ELSE mnemonic[i]],
                 Len(mnemonic)))

\* What the random source can give a call of split on mnemonic: nothing is
\* drawn when the word count is refused.
Draws(mnemonic) ==
    IF is_invalid_word_count(Len(mnemonic)) THEN {{}} ELSE shuffled(Len(mnemonic))

(***************************************************************************)
(* The bip32 crate: child numbers, extended keys and their text form.      *)
(* A u32 is a pair of its top bit and its low 31 bits.                     *)
(***************************************************************************)
KEY_SIZE == 32

MAX_DEPTH == 255

U32(n) == [top |-> FALSE, low |-> n]

\* ChildNumber::new: the index must leave the hardened bit free.
ChildNumber_new(index, hardened) ==
    IF index.top THEN LibErr("bip32::Error", "ChildNumber")
    ELSE Ok([index |-> index.low, hardened |-> hardened])

\* ChildNumber::to_bytes: big endian, the hardened flag as bit 31.
ChildNumber_to_bytes(cn) ==
    << (IF cn.hardened THEN 128 ELSE 0) + cn.index \div 16777216,
       (cn.index \div 65536) % 256,
       (cn.index \div 256) % 256,
       cn.index % 256 >>

\* Stand-in for the scalar to compressed point projection: 33 bytes.
PublicKeyBytes(private_key) ==
    <<2 + (private_key[KEY_SIZE] % 2)>> \o Digest(33, private_key, KEY_SIZE)

\* Stand-in for the addition of two scalars modulo the curve order.
AddScalars(a, b) == Seq1([i \in 1..KEY_SIZE |-> (a[i] + b[i]) % 256], KEY_SIZE)

\* XPrv::public_key: the same attributes, the projected key.
public_key(xprv) ==
    [public_key |-> PublicKeyBytes(xprv.private_key), attrs |-> xprv.attrs]

\* The first 4 bytes of RIPEMD160(SHA256(public key)).
fingerprint(xprv) == Take(Ripemd160(Sha256(PublicKeyBytes(xprv.private_key))), 4)

\* XPrv::new: the seed is 16, 32 or 64 bytes; HMAC-SHA512 keyed "Bitcoin seed".
XPrv_new(seed) ==
    IF Len(seed) \notin {16, 32, 64} THEN LibErr("bip32::Error", "SeedLength")
    ELSE LET result == HmacSha512(<<66, 105, 116, 99, 111, 105, 110, 32,
                                    115, 101, 101, 100>>, seed)
         IN  Ok([private_key |-> Take(result, KEY_SIZE),
                 attrs |-> [depth |-> 0,
                            parent_fingerprint |-> Zeros(4),
                            child_number |-> [index |-> 0, hardened |-> FALSE],
                            chain_code |-> Drop(result, KEY_SIZE)]])

\* XPrv::derive_child.
derive_child(xprv, child_number) ==
    IF xprv.attrs.depth = MAX_DEPTH THEN LibErr("bip32::Error", "Depth")
    ELSE LET data == (IF child_number.hardened
                      THEN <<0>> \o xprv.private_key
                      ELSE PublicKeyBytes(xprv.private_key))
                     \o ChildNumber_to_bytes(child_number)
             result == HmacSha512(xprv.attrs.chain_code, data)
             child == AddScalars(xprv.private_key, Take(result, KEY_SIZE))
         IN  IF child = Zeros(KEY_SIZE) THEN LibErr("bip32::Error", "Crypto")
             ELSE Ok([private_key |-> child,
                      attrs |-> [depth |-> xprv.attrs.depth + 1,
                                 parent_fingerprint |-> fingerprint(xprv),
                                 child_number |-> child_number,
                                 chain_code |-> Drop(result, KEY_SIZE)]])

\* The text of an extended key: the fields its Base58Check string carries.
KeyText(prefix, attrs, key_bytes) ==
    [prefix |-> prefix, attrs |-> attrs, key_bytes |-> key_bytes]

\* to_string(Prefix::XPRV) of a private key: the key bytes follow a zero byte.
XPrv_to_string(xprv) == KeyText("xprv", xprv.attrs, <<0>> \o xprv.private_key)

\* to_string(Prefix::XPUB) of a public key.
XPub_to_string(xpub) == KeyText("xpub", xpub.attrs, xpub.public_key)

\* A text that is no Base58Check string.
JunkText ==
    KeyText("junk", [depth |-> 0, parent_fingerprint |-> Zeros(4),
                     child_number |-> [index |-> 0, hardened |-> FALSE],
                     chain_code |-> <<>>], <<>>)

\* XPrv::from_str: the text must decode, and to a private key.
XPrv_from_str(text) ==
    IF text.prefix \notin {"xprv", "xpub"} THEN LibErr("bip32::Error", "Base58")
    ELSE IF text.prefix # "xprv" \/ text.key_bytes[1] # 0
    THEN LibErr("bip32::Error", "Crypto")
    ELSE Ok([private_key |-> Drop(text.key_bytes, 1), attrs |-> text.attrs])

(***************************************************************************)
(* hd_wallet/address.rs                                                    *)
(***************************************************************************)
\* dst[lo..hi].copy_from_slice(src), on 0-based indices.
copy_from_slice(dst, lo, hi, src) ==
    Seq1([i \in 1..Len(dst) |-> IF lo < i /\ i <= hi THEN src[i - lo] ELSE dst[i]],
         Len(dst))

\* Mutant: the checksum is a single SHA256 of the payload.
wif_single_sha256(privkey) ==
    LET payload == [copy_from_slice([Zeros(34) EXCEPT ![1] = 128], 1, 33, privkey)
                        EXCEPT ![34] = 1]
        checksum == Take(Sha256(payload), 4)
        result == copy_from_slice(copy_from_slice(Zeros(38), 0, 34, payload),
                                  34, 38, checksum)
    IN  bs58_encode(result)

wif(privkey) ==
    LET payload == [copy_from_slice([Zeros(34) EXCEPT ![1] = 128], 1, 33, privkey)
                        EXCEPT ![34] = 1]
        checksum == Take(Sha256(Sha256(payload)), 4)
        result == copy_from_slice(copy_from_slice(Zeros(38), 0, 34, payload),
                                  34, 38, checksum)
    IN  bs58_encode(result)

p2pkh(pubkey) ==
    LET payload == copy_from_slice([Zeros(21) EXCEPT ![1] = 0], 1, 21,
                                   Take(Ripemd160(Sha256(pubkey)), 20))
        checksum == Take(Sha256(Sha256(payload)), 4)
        result == copy_from_slice(copy_from_slice(Zeros(25), 0, 21, payload),
                                  21, 25, checksum)
    IN  bs58_encode(result)

\* Address::new
Address_new(pubkey, privkey, fmt_ok) ==
    LET hash == p2pkh(pubkey.public_key)
        privkey_wif == wif(privkey.private_key)
        pubkey_hex == encode(pubkey.public_key, FALSE, fmt_ok)
    IN  IF ~pubkey_hex.ok THEN From(pubkey_hex.err)
        ELSE Ok([hash |-> hash, pubkey |-> pubkey_hex.val, privkey |-> privkey_wif])

(***************************************************************************)
(* hd_wallet/mod.rs                                                        *)
(***************************************************************************)
prepare_root(seed) ==
    LET root == XPrv_new(seed)
    IN  IF ~root.ok THEN From(root.err) ELSE Ok(XPrv_to_string(root.val))

ExtendedPubPrivKey_new(pubkey, privkey) ==
    [pubkey |-> XPub_to_string(pubkey), privkey |-> XPrv_to_string(privkey)]

Profiles == {"BitcoinCore", "Multibit", "Bip32BlockExplorer", "Bip44BlockExplorer"}

\* Mutant: the BIP44 profile expects the account key, of depth 3.
EXTENDED_KEY_DEPTH_account(profile) ==
    CASE profile = "BitcoinCore" -> 2
      [] profile = "Multibit" -> 2
      [] profile = "Bip32BlockExplorer" -> 3
      [] profile = "Bip44BlockExplorer" -> 3

EXTENDED_KEY_DEPTH(profile) ==
    CASE profile = "BitcoinCore" -> 2
      [] profile = "Multibit" -> 2
      [] profile = "Bip32BlockExplorer" -> 3
      [] profile = "Bip44BlockExplorer" -> 4

\* Mutant: no profile hardens its addresses.
IS_HARDENED_ADDRESSES_never(profile) == FALSE

IS_HARDENED_ADDRESSES(profile) ==
    CASE profile = "BitcoinCore" -> TRUE
      [] profile = "Multibit" -> FALSE
      [] profile = "Bip32BlockExplorer" -> FALSE
      [] profile = "Bip44BlockExplorer" -> FALSE

\* WalletBipError::Unexpected(eyre!("Key depth must be {}", depth))
KeyDepthError(depth) ==
    Err("Unexpected", [type |-> "eyre::Report",
                       detail |-> "Key depth must be " \o ToString(depth)])

\* key.derive_child(ChildNumber::new(index, hardened)?)?, where key is the
\* result so far: an error met earlier in the chain has already returned.
DeriveStep(key, index, hardened) ==
    IF ~key.ok THEN key
    ELSE LET child_number == ChildNumber_new(index, hardened)
         IN  IF ~child_number.ok THEN From(child_number.err)
             ELSE LET child == derive_child(key.val, child_number.val)
                  IN  IF ~child.ok THEN From(child.err) ELSE Ok(child.val)

\* Client::prepare_address
prepare_address(profile, extended_key, index, fmt_ok) ==
    LET extended == XPrv_from_str(extended_key)
    IN  IF ~extended.ok THEN From(extended.err)
        ELSE IF extended.val.attrs.depth # EXTENDED_KEY_DEPTH(profile)
        THEN KeyDepthError(EXTENDED_KEY_DEPTH(profile))
        ELSE LET privkey == DeriveStep(extended, index, IS_HARDENED_ADDRESSES(profile))
             IN  IF ~privkey.ok THEN privkey
                 ELSE Address_new(public_key(privkey.val), privkey.val, fmt_ok)

(***************************************************************************)
(* hd_wallet/b32.rs                                                        *)
(***************************************************************************)
Bip32_ROOT_KEY_DEPTH == 0

\* Ok(ExtendedPubPrivKey::new(&privkey.public_key(), &privkey))
PubPriv(privkey) ==
    IF ~privkey.ok THEN privkey
    ELSE Ok(ExtendedPubPrivKey_new(public_key(privkey.val), privkey.val))

\* m/0'/0'
BitcoinCore_prepare_extended_key(root_key) ==
    LET root == XPrv_from_str(root_key)
    IN  IF ~root.ok THEN From(root.err)
        ELSE IF root.val.attrs.depth # Bip32_ROOT_KEY_DEPTH
        THEN KeyDepthError(Bip32_ROOT_KEY_DEPTH)
        ELSE PubPriv(DeriveStep(DeriveStep(root, U32(0), TRUE), U32(0), TRUE))

\* Mutant: the second step is hardened too, as for BitcoinCore.
Multibit_prepare_extended_key_hardened(root_key) ==
    BitcoinCore_prepare_extended_key(root_key)

\* m/0'/0
Multibit_prepare_extended_key(root_key) ==
    LET root == XPrv_from_str(root_key)
    IN  IF ~root.ok THEN From(root.err)
        ELSE IF root.val.attrs.depth # Bip32_ROOT_KEY_DEPTH
        THEN KeyDepthError(Bip32_ROOT_KEY_DEPTH)
        ELSE PubPriv(DeriveStep(DeriveStep(root, U32(0), TRUE), U32(0), FALSE))

\* m/44'/0'/0'
Bip32BlockExplorer_prepare_extended_key(root_key) ==
    LET root == XPrv_from_str(root_key)
    IN  IF ~root.ok THEN From(root.err)
        ELSE IF root.val.attrs.depth # Bip32_ROOT_KEY_DEPTH
        THEN KeyDepthError(Bip32_ROOT_KEY_DEPTH)
        ELSE PubPriv(DeriveStep(DeriveStep(DeriveStep(root, U32(44), TRUE),
                                           U32(0), TRUE), U32(0), TRUE))

Bip32_prepare_extended_key(profile, root_key) ==
    CASE profile = "BitcoinCore" -> BitcoinCore_prepare_extended_key(root_key)
      [] profile = "Multibit" -> Multibit_prepare_extended_key(root_key)
      [] profile = "Bip32BlockExplorer" ->
            Bip32BlockExplorer_prepare_extended_key(root_key)

(***************************************************************************)
(* hd_wallet/b44.rs                                                        *)
(***************************************************************************)
Bip44_ROOT_KEY_DEPTH == 0

Coins == {"Btc", "Eth"}

\* impl From<Coin> for u32
u32_from_Coin(coin) == CASE coin = "Btc" -> 0 [] coin = "Eth" -> 60

\* Mutant: the discriminants start at 1.
Coin_as_u32_from_one(coin) == CASE coin = "Btc" -> 1 [] coin = "Eth" -> 2

\* coin as u32: the discriminant of the variant, in declaration order.
Coin_as_u32(coin) == CASE coin = "Btc" -> 0 [] coin = "Eth" -> 1

\* m/44'/coin'/account'
prepare_account_extended_key(root_key, coin, account) ==
    LET root == XPrv_from_str(root_key)
    IN  IF ~root.ok THEN From(root.err)
        ELSE IF root.val.attrs.depth # Bip44_ROOT_KEY_DEPTH
        THEN KeyDepthError(Bip44_ROOT_KEY_DEPTH)
        ELSE PubPriv(DeriveStep(DeriveStep(DeriveStep(root, U32(44), TRUE),
                                           U32(Coin_as_u32(coin)), TRUE),
                                account, TRUE))

\* m/44'/coin'/account'/is_external
Bip44_prepare_extended_key(account_key, is_external) ==
    LET account_extended == XPrv_from_str(account_key)
    IN  IF ~account_extended.ok THEN From(account_extended.err)
        ELSE PubPriv(DeriveStep(account_extended,
                                U32(IF is_external THEN 1 ELSE 0), FALSE))

(***************************************************************************)
(* The caller.                                                             *)
(***************************************************************************)
Init ==
    /\ pc = "idle"
    /\ op = "none"
    /\ arg = NoValue
    /\ res = Ok(NoValue)
    /\ last_err = NoError

\* The call has returned; the caller keeps the error, if it was one.
Return ==
    /\ pc = "done"
    /\ pc' = "idle"
    /\ op' = "none"
    /\ arg' = NoValue
    /\ res' = Ok(NoValue)
    /\ last_err' = IF res.ok THEN last_err ELSE res.err

\* A call and its return value; calls are made when no call is running.
Idle == pc = "idle"

Call(name, a, r) ==
    /\ pc' = "done"
    /\ op' = name
    /\ arg' = a
    /\ res' = r
    /\ UNCHANGED last_err

Generate ==
    /\ Idle
    /\ \E word_count \in 0..MaxLen, t \in 0..(NumPhrases - 1) :
        Call("generate", [word_count |-> word_count, rng |-> t],
             generate(word_count, t))

\* Every word sequence of n words offered to split.
WordSeqs(n) == {Phrase(n, t) : t \in 0..(NumPhrases - 1)} \cup {ForeignPhrase(n)}

\* split on the word sequences of at most max words.
SplitUpTo(max) ==
    /\ Idle
    /\ \E n \in 0..max : \E mnemonic \in WordSeqs(n) : \E values \in Draws(mnemonic) :
        Call("split", [mnemonic |-> mnemonic, rng |-> values],
             split(mnemonic, values))

\* tests::test_split_mnemonic: two calls of split on one generated mnemonic.
TestSplitMnemonic ==
    /\ Idle
    /\ \E t \in 0..(NumPhrases - 1) :
        LET mnemonic == generate(12, t).val
        IN  \E values1 \in Draws(mnemonic), values2 \in Draws(mnemonic) :
                LET result1 == split(mnemonic, values1).val
                    result2 == split(mnemonic, values2).val
                IN  Call("test_split_mnemonic",
                         [mnemonic |-> mnemonic, rng |-> <<values1, values2>>],
                         Ok([result1 |-> result1, result2 |-> result2,
                             passed |-> /\ Len(result1) = 12
                                        /\ Len(result2) = 12
                                        /\ result1 # result2]))

Split == SplitUpTo(MaxLen)

NextSplit == Split

SpecSplit == Init /\ [][NextSplit]_vars

NextTest == TestSplitMnemonic

SpecTest == Init /\ [][NextTest]_vars

(***************************************************************************)
(* The keys, seeds and indices the calls are made on.                      *)
(***************************************************************************)
\* The 64 bytes prepare_seed returns for the s-th mnemonic.
Seed(s) == Digest(s, <<s>>, 64)

ShortSeed == <<1, 2, 3>>

RootKey(s) == XPrv_new(Seed(s)).val

\* The child taken at depth d on the way m/44'/0'/0'/0/0/...
PathStep(d) ==
    [index |-> IF d = 1 THEN 44 ELSE 0, hardened |-> d <= 3]

RECURSIVE KeyAt(_, _)
\* The key of depth d below the s-th root.
KeyAt(s, d) ==
    IF d = 0 THEN RootKey(s) ELSE derive_child(KeyAt(s, d - 1), PathStep(d)).val

\* A parseable text whose depth byte is depth.
DeepText(depth) == [XPrv_to_string(KeyAt(1, 1)) EXCEPT !.attrs.depth = depth]

\* What the profiles return for the s-th root.
ProfileTexts(s) ==
    LET root == XPrv_to_string(RootKey(s))
        account == prepare_account_extended_key(root, "Btc", U32(0)).val.privkey
    IN  {Bip32_prepare_extended_key(profile, root).val.privkey :
            profile \in Profiles \ {"Bip44BlockExplorer"}}
        \cup {account, Bip44_prepare_extended_key(account, FALSE).val.privkey}

KeyTexts ==
    {XPrv_to_string(KeyAt(s, d)) : s \in 1..NumSeeds, d \in 0..MaxDepth}
    \cup UNION {ProfileTexts(s) : s \in 1..NumSeeds}
    \cup {DeepText(MAX_DEPTH - 1), DeepText(MAX_DEPTH)}
    \cup {XPub_to_string(public_key(RootKey(1))), JunkText}

\* u32 arguments: small, the largest index, and one with the top bit set.
Indices == {U32(0), U32(7), U32(2147483647), [top |-> TRUE, low |-> 0]}

(***************************************************************************)
(* The calls of the hd_wallet module.                                      *)
(***************************************************************************)
PrepareRoot ==
    /\ Idle
    /\ \E seed \in {Seed(s) : s \in 1..NumSeeds} \cup {ShortSeed} :
        Call("prepare_root", [seed |-> seed], prepare_root(seed))

Bip32PrepareExtendedKey ==
    /\ Idle
    /\ \E profile \in Profiles \ {"Bip44BlockExplorer"}, root_key \in KeyTexts :
        Call("Bip32::prepare_extended_key",
             [profile |-> profile, root_key |-> root_key],
             Bip32_prepare_extended_key(profile, root_key))

PrepareAccountExtendedKey ==
    /\ Idle
    /\ \E root_key \in KeyTexts, coin \in Coins, account \in Indices :
        Call("Bip44::prepare_account_extended_key",
             [root_key |-> root_key, coin |-> coin, account |-> account],
             prepare_account_extended_key(root_key, coin, account))

Bip44PrepareExtendedKey ==
    /\ Idle
    /\ \E account_key \in KeyTexts, is_external \in BOOLEAN :
        Call("Bip44::prepare_extended_key",
             [account_key |-> account_key, is_external |-> is_external],
             Bip44_prepare_extended_key(account_key, is_external))

PrepareAddress ==
    /\ Idle
    /\ \E profile \in Profiles, extended_key \in KeyTexts, index \in Indices,
          fmt_ok \in BOOLEAN :
        Call("prepare_address",
             [profile |-> profile, extended_key |-> extended_key,
              index |-> index, fmt_ok |-> fmt_ok],
             prepare_address(profile, extended_key, index, fmt_ok))

Next ==
    \/ PrepareRoot
    \/ Bip32PrepareExtendedKey
    \/ PrepareAccountExtendedKey
    \/ Bip44PrepareExtendedKey
    \/ PrepareAddress
    \/ Return

Spec == Init /\ [][Next]_vars

\* Calls one after the other, the caller keeping the last error: every call
\* that can fail, split on the short word sequences.
SplitShort == SplitUpTo(MIN_NB_WORDS)

NextErr ==
    \/ Next
    \/ Generate
    \/ SplitShort

SpecErr == Init /\ [][NextErr]_vars

(***************************************************************************)
(* The calls of the hex module.                                            *)
(***************************************************************************)
\* Every sequence of at most n elements of S.
SeqsUpTo(S, n) == UNION {[1..k -> S] : k \in 0..n}

\* Bytes at the ends of the digit ranges.
SampleBytes == {0, 9, 10, 15, 16, 171, 255}

\* Every byte alone, the sequences of sample bytes, and a public key.
HexInputs ==
    {<<b>> : b \in Byte}
    \cup SeqsUpTo(SampleBytes, MaxHexLen)
    \cup {PublicKeyBytes(RootKey(1).private_key)}

\* Digits of both cases, the prefix letter, and characters that are no digit.
HexChars == {"0", "9", "a", "f", "A", "F", "x", "g", " "}

HexEncode ==
    /\ Idle
    /\ \E bytes \in HexInputs, need_prefix \in BOOLEAN, fmt_ok \in BOOLEAN :
        Call("hex::encode",
             [bytes |-> bytes, need_prefix |-> need_prefix, fmt_ok |-> fmt_ok],
             encode(bytes, need_prefix, fmt_ok))

HexDecode ==
    /\ Idle
    /\ \E s \in SeqsUpTo(HexChars, MaxHexLen) :
        Call("hex::decode", [s |-> s], decode(s))

NextHex ==
    \/ HexEncode
    \/ HexDecode

SpecHex == Init /\ [][NextHex]_vars

(***************************************************************************)
(* What the documentation states, for the properties below.                *)
(***************************************************************************)
\* The depth each profile documents for its extended key.
DocumentedDepth(profile) ==
    CASE profile = "BitcoinCore" -> 2
      [] profile = "Multibit" -> 2
      [] profile = "Bip32BlockExplorer" -> 3
      [] profile = "Bip44BlockExplorer" -> 4

Hard(index) == [index |-> index, hardened |-> TRUE]

Soft(index) == [index |-> index, hardened |-> FALSE]

\* The path each BIP32 profile documents for its extended key.
DocumentedPath(profile) ==
    CASE profile = "BitcoinCore" -> <<Hard(0), Hard(0)>>
      [] profile = "Multibit" -> <<Hard(0), Soft(0)>>
      [] profile = "Bip32BlockExplorer" -> <<Hard(44), Hard(0), Hard(0)>>

\* The BIP44 coin type.
CoinType(coin) == IF coin = "Eth" THEN 60 ELSE 0

RECURSIVE PathKey(_, _)
\* The key at the end of path below key.
PathKey(key, path) ==
    IF path = <<>> THEN key
    ELSE PathKey(derive_child(key, Head(path)).val, Tail(path))

\* The first 4 bytes of SHA256(SHA256(payload)).
Checksum(payload) == Take(Sha256(Sha256(payload)), 4)

\* The five kinds of error of the documentation, by what failed.
ErrorKind(e) ==
    CASE e.source.type = "bip39::Error" -> "MnemonicError"
      [] e.source.type = "String" -> "SplitError"
      [] e.source.type = "bip32::Error" -> "CryptoError"
      [] e.source.type = "eyre::Report" /\ e.source.detail = "fmt::Error" -> "FormatError"
      [] OTHER -> "PolicyError"

\* The child a successful prepare_address is documented to derive.
AddressChild ==
    derive_child(XPrv_from_str(arg.extended_key).val,
                 [index |-> arg.index.low,
                  hardened |-> arg.profile = "BitcoinCore"]).val

(***************************************************************************)
(* Properties.                                                             *)
(***************************************************************************)
\* C1: prepare_account_extended_key on a depth-0 root and an account index
\* below 2^31 returns the key at m/44'/60'/account' for Eth and at
\* m/44'/0'/account' for Btc.
C1_CoinTypePath ==
    (/\ op = "Bip44::prepare_account_extended_key"
     /\ XPrv_from_str(arg.root_key).ok
     /\ XPrv_from_str(arg.root_key).val.attrs.depth = 0
     /\ ~arg.account.top)
    => /\ res.ok
       /\ res.val.privkey =
            XPrv_to_string(PathKey(XPrv_from_str(arg.root_key).val,
                                   <<Hard(44), Hard(CoinType(arg.coin)),
                                     Hard(arg.account.low)>>))

\* C2: prepare_address on a parseable key whose depth differs from the
\* depth the profile expects returns an error and no Address, for every index.
C2_DepthMismatchFails ==
    (/\ op = "prepare_address"
     /\ XPrv_from_str(arg.extended_key).ok
     /\ XPrv_from_str(arg.extended_key).val.attrs.depth # DocumentedDepth(arg.profile))
    => /\ ~res.ok
       /\ res.val = NoValue

C2_Witness ==
    /\ op = "prepare_address"
     /\ arg.profile = "Bip44BlockExplorer"
     /\ XPrv_from_str(arg.extended_key).ok
     /\ XPrv_from_str(arg.extended_key).val.attrs.depth = 3
     /\ arg.index = U32(7)
     /\ ~res.ok

\* C3: whenever a profile's prepare_extended_key returns Ok, the key has the
\* documented depth: 2 for BitcoinCore and Multibit, 3 for the BIP32
\* BlockExplorer, 4 for the BIP44 chain level; and the BIP44 account key
\* has depth 3.
C3_DocumentedDepth ==
    /\ (op = "Bip32::prepare_extended_key" /\ res.ok)
        => /\ res.val.privkey.attrs.depth = DocumentedDepth(arg.profile)
           /\ res.val.pubkey.attrs.depth = DocumentedDepth(arg.profile)
    /\ (op = "Bip44::prepare_extended_key" /\ res.ok)
        => /\ res.val.privkey.attrs.depth = 4
           /\ res.val.pubkey.attrs.depth = 4
    /\ (op = "Bip44::prepare_account_extended_key" /\ res.ok)
        => /\ res.val.privkey.attrs.depth = 3
           /\ res.val.pubkey.attrs.depth = 3

\* C4: on a sequence of n words, 12 <= n <= 24 and n a multiple of 3, split
\* returns n words of which exactly n/3 positions, the ones the shuffle
\* selected, hold "XXXX" and every other position holds the input word.
C4_SplitHidesThird ==
    (/\ op = "split"
     /\ Len(arg.mnemonic) >= 12
     /\ Len(arg.mnemonic) <= 24
     /\ Len(arg.mnemonic) % 3 = 0)
    => LET n == Len(arg.mnemonic)
       IN  /\ res.ok
           /\ Len(res.val) = n
           /\ arg.rng \subseteq 0..(n - 1)
           /\ Cardinality(arg.rng) = n \div 3
           /\ \A i \in 1..n :
                res.val[i] = IF (i - 1) \in arg.rng THEN "XXXX" ELSE arg.mnemonic[i]
           /\ "XXXX" \notin Range(arg.mnemonic)
                => Cardinality({i \in 1..n : res.val[i] = "XXXX"}) = n \div 3
           /\ n = 12 => Cardinality(arg.rng) = 4
           /\ n = 24 => Cardinality(arg.rng) = 8

C4_Witness ==
    /\ op = "split"
    /\ Len(arg.mnemonic) = 24
    /\ res.ok
    /\ Cardinality({i \in 1..24 : res.val[i] = "XXXX"}) = 8
    /\ \E i \in 1..24 : res.val[i] = arg.mnemonic[i] /\ res.val[i] # "XXXX"

\* C5: split fails, with the SplitMnemonic error and no word sequence,
\* exactly when the length is below 12, above 24 or no multiple of 3; it
\* succeeds on 12, 15, 18, 21 and 24 words, in a word list or not.
C5_SplitErrorExactly ==
    op = "split"
    => LET n == Len(arg.mnemonic)
       IN  /\ ~res.ok <=> (n < 12 \/ n > 24 \/ n % 3 # 0)
           /\ ~res.ok => /\ res.err.variant = "SplitMnemonic"
                         /\ res.val = NoValue
           /\ n \in {12, 15, 18, 21, 24} => res.ok

C5_Witness ==
    /\ op = "split"
    /\ Len(arg.mnemonic) = 24
    /\ \E i \in 1..24 : ~is_mnemonic(arg.mnemonic[i])
    /\ res.ok

C7_AddressOfChild ==
    (op = "prepare_address" /\ res.ok)
    => /\ ~arg.index.top
       /\ XPrv_from_str(arg.extended_key).val.attrs.depth = DocumentedDepth(arg.profile)
       /\ AddressChild.attrs.depth = DocumentedDepth(arg.profile) + 1
       /\ AddressChild.attrs.child_number.index = arg.index.low
       /\ AddressChild.attrs.child_number.hardened = (arg.profile = "BitcoinCore")
       /\ res.val = Address_new([public_key |-> PublicKeyBytes(AddressChild.private_key),
                                 attrs |-> AddressChild.attrs],
                                AddressChild, TRUE).val

C7_Witness ==
    /\ op = "prepare_address"
    /\ res.ok
    /\ arg.profile = "BitcoinCore"
    /\ arg.index = U32(7)

C9_Base58CheckLayout ==
    (op = "prepare_address" /\ res.ok)
    => LET scalar == AddressChild.private_key
           point == PublicKeyBytes(scalar)
           wif_payload == <<128>> \o scalar \o <<1>>
           hash_payload == <<0>> \o Ripemd160(Sha256(point))
       IN  /\ Len(scalar) = 32
           /\ Len(point) = 33
           /\ Len(wif_payload) = 34
           /\ Len(wif_payload \o Checksum(wif_payload)) = 38
           /\ res.val.privkey = bs58_encode(wif_payload \o Checksum(wif_payload))
           /\ Len(hash_payload) = 21
           /\ Len(hash_payload \o Checksum(hash_payload)) = 25
           /\ res.val.hash = bs58_encode(hash_payload \o Checksum(hash_payload))

C9_Witness ==
    /\ op = "prepare_address"
    /\ res.ok
    /\ arg.profile = "Multibit"
    /\ Len(res.val.privkey) = 52
    /\ Head(res.val.hash) = "1"

\* C10: a BIP32 profile's prepare_extended_key fails on every key of depth
\* other than 0, and when it succeeds returns the private key at the end of
\* its path (m/0'/0', m/0'/0, m/44'/0'/0') with the public key projected
\* from that private key.
C10_FixedPath ==
    (op = "Bip32::prepare_extended_key" /\ XPrv_from_str(arg.root_key).ok)
    => LET root == XPrv_from_str(arg.root_key).val
           key == PathKey(root, DocumentedPath(arg.profile))
       IN  /\ root.attrs.depth # 0 => ~res.ok
           /\ res.ok
                => /\ root.attrs.depth = 0
                   /\ res.val.privkey = XPrv_to_string(key)
                   /\ res.val.pubkey =
                        KeyText("xpub", key.attrs, PublicKeyBytes(key.private_key))

C10_Witness ==
    /\ op = "Bip32::prepare_extended_key"
    /\ arg.profile = "Multibit"
    /\ res.ok
    /\ res.val.privkey.attrs.child_number = Soft(0)

\* C11: on every root key text, the BIP32 BlockExplorer
\* prepare_extended_key and the BIP44 prepare_account_extended_key with
\* Coin::Btc and account 0 both fail or both succeed with the same private
\* and public extended-key strings; both reject a root of depth other than 0.
C11_BlockExplorersAgree ==
    /\ (op = "Bip32::prepare_extended_key" /\ arg.profile = "Bip32BlockExplorer")
        => LET other == prepare_account_extended_key(arg.root_key, "Btc", U32(0))
           IN  /\ res.ok <=> other.ok
               /\ res.ok => /\ res.val.privkey = other.val.privkey
                            /\ res.val.pubkey = other.val.pubkey
    /\ (/\ op = "Bip44::prepare_account_extended_key"
        /\ arg.coin = "Btc"
        /\ arg.account = U32(0))
        => LET other == Bip32BlockExplorer_prepare_extended_key(arg.root_key)
           IN  /\ res.ok <=> other.ok
               /\ res.ok => /\ res.val.privkey = other.val.privkey
                            /\ res.val.pubkey = other.val.pubkey
               /\ (/\ XPrv_from_str(arg.root_key).ok
                   /\ XPrv_from_str(arg.root_key).val.attrs.depth # 0)
                    => ~res.ok /\ ~other.ok

C11_Witness ==
    /\ op = "Bip44::prepare_account_extended_key"
    /\ arg.coin = "Btc"
    /\ arg.account = U32(0)
    /\ res.ok
    /\ res.val.privkey = Bip32BlockExplorer_prepare_extended_key(arg.root_key).val.privkey
    /\ res.val.privkey.attrs.depth = 3

\* C12: for every byte sequence b and both values of need_prefix, encode
\* (its writes into the String succeeding) returns exactly 2 * len(b)
\* lowercase hex digits, preceded by "0x" exactly when need_prefix is true,
\* and decode of that string returns exactly b.
C12_HexRoundTrip ==
    (op = "hex::encode" /\ arg.fmt_ok)
    => LET digits == IF arg.need_prefix THEN SubSeq(res.val, 3, Len(res.val))
                     ELSE res.val
       IN  /\ res.ok
           /\ Len(res.val) = 2 * Len(arg.bytes) + (IF arg.need_prefix THEN 2 ELSE 0)
           /\ arg.need_prefix => (res.val[1] = "0" /\ res.val[2] = "x")
           /\ Len(digits) = 2 * Len(arg.bytes)
           /\ \A k \in 1..Len(digits) :
                digits[k] \in {"0", "1", "2", "3", "4", "5", "6", "7",
                               "8", "9", "a", "b", "c", "d", "e", "f"}
           /\ decode(res.val).ok
           /\ decode(res.val).val = arg.bytes

C12_Witness ==
    /\ op = "hex::encode"
    /\ arg.fmt_ok
    /\ arg.need_prefix
    /\ arg.bytes = <<0, 171, 255>>
    /\ res.ok
    /\ res.val = <<"0", "x", "0", "0", "a", "b", "f", "f">>
    /\ decode(res.val).val = <<0, 171, 255>>

====
